---- MODULE Spec2Model ----
(***************************************************************************)
(* Model of github.com/werf/copy-recurse (copyrec_nonwindows.go).          *)
(*                                                                         *)
(* A CopyRecurse job copies a source tree into a destination tree.  The    *)
(* two trees are functions from relative paths (sequences of names) to     *)
(* entries; the destination root is the relative path << >>.  Run is       *)
(* modelled callback by callback: one step for prepareDestParentDir, one   *)
(* step per entry of the outer fs.WalkDir (processDir / processFile) and   *)
(* one step per entry of the inner walk of copyRecurse.                    *)
(***************************************************************************)
EXTENDS Integers, Sequences, FiniteSets, TLC

\* ------------------------------------------------------------------ bounds

\* Size of the largest input: the number of entries below the source root,
\* plus those below the destination root, plus the environment switches set
\* away from their defaults (InputSize).
MaxInput == 3

\* The longest chain of directories createEmptyDirsChain is asked for at once
\* in ChainSpec, the destination root included.
MaxChain == 8

\* The longest path, in names, that the system calls accept in NestSpec.
MaxPath == 4

\* Entry names, in the order os.ReadDir lists them (sorted by file name).
NameSeq == <<"a", "b">>
Names == {NameSeq[i] : i \in 1..Len(NameSeq)}

\* ------------------------------------------------------------- data model

DirMatch == "DirMatch"
DirFallThrough == "DirFallThrough"
DirSkip == "DirSkip"
DirActions == {DirMatch, DirFallThrough, DirSkip}

\* A nil *uint32 (Options.UID, Options.GID).
Nil == -1

\* Permission bits are a set of bit names; os.ModePerm is all of them.
ModePerm == {"r", "w", "x"}

\* The effective uid and gid of the process that runs the copy: the owner of
\* whatever it creates until a chown.
Proc == [uid |-> 0, gid |-> 0]

NoData == << >>
None == [type |-> "none", mode |-> {}, uid |-> 0, gid |-> 0, data |-> NoData]

RECURSIVE PathsUpTo(_)
PathsUpTo(d) ==
    IF d = 0 THEN {<< >>}
    ELSE PathsUpTo(d - 1) \cup
         {Append(p, n) : p \in {q \in PathsUpTo(d - 1) : Len(q) = d - 1}, n \in Names}

\* A tree of k entries below its root is at most k deep.
Paths == PathsUpTo(MaxInput)
Root == << >>

\* filepath.Dir of a relative path below the root.
Parent(p) == SubSeq(p, 1, Len(p) - 1)

IsPrefix(q, p) == Len(q) <= Len(p) /\ SubSeq(p, 1, Len(q)) = q
Below(q, p) == IsPrefix(q, p) /\ q # p   \* p is strictly below q

\* ----------------------------------------------------------------- inputs

Last(p) == p[Len(p)]
NameIndex(n) == CHOOSE i \in 1..Len(NameSeq) : NameSeq[i] = n

RECURSIVE Shapes(_)
\* The sets of exactly k paths below the root that are closed under Parent.
Shapes(k) ==
    IF k = 0 THEN {{}}
    ELSE UNION {{S \cup {Append(q, n)} :
                    q \in {r \in {Root} \cup S : Len(r) < MaxInput},
                    n \in Names} \ {S} : S \in Shapes(k - 1)}

HasChild(S, p) == \E q \in S : Len(q) = Len(p) + 1 /\ Parent(q) = p

\* Only a directory has entries below it.
Typings(S, types) ==
    {T \in [S -> types] : \A p \in S : HasChild(S, p) => T[p] = "dir"}

\* The attributes of the source entries are told apart by the entry's name:
\* two siblings differ in permission bits, owner, group and link target, a
\* file's content names its own path.
SrcEntry(type, p) ==
    LET i == IF p = Root THEN 1 ELSE NameIndex(Last(p))
        perm == IF p = Root THEN ModePerm
                ELSE IF i % 2 = 1 THEN {"r", "x"} ELSE {"r", "w"}
    IN  [type |-> type,
         mode |-> IF type = "symlink" THEN ModePerm ELSE perm,
         uid  |-> i,
         gid  |-> Len(NameSeq) + 1 - i,
         data |-> CASE type = "file" -> <<"content">> \o p
                    [] type = "symlink" ->
                         IF i % 2 = 1 THEN <<"->", "somewhere">> ELSE <<"->", "a">>
                    [] OTHER -> NoData]

\* What is in the destination before Run belongs to somebody else.
DestEntry(type, p) ==
    LET i == IF p = Root THEN 1 ELSE NameIndex(Last(p))
    IN  [type |-> type,
         mode |-> IF type = "symlink" THEN ModePerm
                  ELSE IF i % 2 = 1 THEN {"r", "x"} ELSE {"r"},
         uid  |-> 7,
         gid  |-> 8,
         data |-> CASE type = "file" -> <<"old">> \o p
                    [] type = "symlink" -> <<"->", "old">>
                    [] OTHER -> NoData]

SrcTypes == {"dir", "file", "symlink", "other"}
DestTypes == {"dir", "file", "symlink"}

\* The source trees with k entries below the root; a root that is no directory
\* has none.
SrcTrees(k) ==
    {[p \in Paths |-> IF p = Root THEN SrcEntry("dir", Root)
                      ELSE IF p \in S THEN SrcEntry(T[p], p) ELSE None] :
        <<S, T>> \in UNION {{<<S1, T1>> : T1 \in Typings(S1, SrcTypes)} : S1 \in Shapes(k)}}
    \cup (IF k = 0
          THEN {[p \in Paths |-> IF p = Root THEN SrcEntry(t, Root) ELSE None] :
                    t \in SrcTypes \ {"dir"}}
          ELSE {})

\* The destination trees with k entries below the root; the root itself may
\* be missing, or be something else than a directory.
DestTrees(k) ==
    {[p \in Paths |-> IF p = Root THEN DestEntry("dir", Root)
                      ELSE IF p \in S THEN DestEntry(T[p], p) ELSE None] :
        <<S, T>> \in UNION {{<<S1, T1>> : T1 \in Typings(S1, DestTypes)} : S1 \in Shapes(k)}}
    \cup (IF k = 0
          THEN {[p \in Paths |-> IF p = Root /\ t # "none" THEN DestEntry(t, Root) ELSE None] :
                    t \in {"none", "file", "symlink"}}
          ELSE {})

SrcTreesBySize == [k \in 0..MaxInput |-> SrcTrees(k)]
DestTreesBySize == [k \in 0..MaxInput |-> DestTrees(k)]

\* What the parent of the destination root is before Run.
ParentKinds == {"dir", "missing", "file", "linkdir", "linkfile", "linkdangling"}
\* The process umask (the test suite runs under 022, which clears "w").
Umasks == {{}, {"w"}}

Envs ==
    [uid : {Nil, 5}, gid : {Nil, 6}, umask : Umasks, parent : ParentKinds,
     abort : BOOLEAN]

Switches(e) ==
    (IF e.uid # Nil THEN 1 ELSE 0) + (IF e.gid # Nil THEN 1 ELSE 0)
    + (IF e.umask # {} THEN 1 ELSE 0) + (IF e.parent # "dir" THEN 1 ELSE 0)
    + (IF e.abort THEN 1 ELSE 0)

\* A policy is a function of the path; only its values on the entries of the
\* source tree matter (directories for MatchDir, the others for MatchFile).
DirPolicies(s) ==
    LET D == {p \in Paths \ {Root} : s[p].type = "dir"}
    IN  {[p \in Paths |-> IF p \in D THEN g[p] ELSE DirFallThrough] :
            g \in [D -> DirActions]}

FilePolicies(s) ==
    LET F == {p \in Paths : s[p].type \notin {"none", "dir"}}
    IN  {[p \in Paths |-> IF p \in F THEN g[p] ELSE TRUE] : g \in [F -> BOOLEAN]}

NoDirPolicy == [p \in Paths |-> DirFallThrough]
NoFilePolicy == [p \in Paths |-> TRUE]

\* Options.MatchDir and Options.MatchFile: nil, or a function.
MatchDirOptions(s) ==
    {[isNil |-> TRUE, f |-> NoDirPolicy]}
    \cup {[isNil |-> FALSE, f |-> g] : g \in DirPolicies(s)}

MatchFileOptions(s) ==
    {[isNil |-> TRUE, f |-> NoFilePolicy]}
    \cup {[isNil |-> FALSE, f |-> g] : g \in FilePolicies(s)}

\* ------------------------------------------------------------------ state

VARIABLES
    src,          \* the source tree, below c.src
    dest,         \* the destination tree, below c.dest
    destParent,   \* what the parent directory of c.dest is
    umask,        \* the umask of the process
    opts,         \* the Options New was given
    c,            \* the CopyRecurse object
    pc,           \* where Run is: "run", "walk", "copy", "done"
    walk,         \* the entries fs.WalkDir of Run has still to visit
    copyq,        \* the entries the walk of copyRecurse has still to visit
    err,          \* what Run returns: "none" or the kind of error
    log,          \* history: the policy calls and filesystem mutations so far
    dest0,        \* history: the destination tree before Run
    par,          \* two jobs that run in parallel, system call by system call
    ctx,          \* the context Run was given: "active" or "canceled"
    chain,        \* one call of createEmptyDirsChain for a deep path, step by step
    nest,         \* a run in one file tree that holds source and destination
    ord           \* the order directories are listed in, and a run to compare with

vars == <<src, dest, destParent, umask, opts, c, pc, walk, copyq, err, log, dest0, par, ctx, chain, nest, ord>>

\* New with FallThrough, and not Match, as the answer of the directory policy
\* nobody set.
New_NilMatchDirFallsThrough(o) ==
    [uid |-> o.UID,
     gid |-> o.GID,
     abortIfDestParentDirNotExists |-> o.AbortIfDestParentDirNotExists,
     matchDir |->
        IF o.MatchDir.isNil THEN [p \in Paths |-> DirFallThrough] ELSE o.MatchDir.f,
     matchFile |->
        IF o.MatchFile.isNil THEN [p \in Paths |-> TRUE] ELSE o.MatchFile.f,
     visitedDestDirs |-> << >>]

\* New with Match as the answer of the directory policy nobody set, whether
\* or not a file policy is set.
New_NilMatchDirMatches(o) ==
    [uid |-> o.UID,
     gid |-> o.GID,
     abortIfDestParentDirNotExists |-> o.AbortIfDestParentDirNotExists,
     matchDir |->
        IF o.MatchDir.isNil THEN [p \in Paths |-> DirMatch] ELSE o.MatchDir.f,
     matchFile |->
        IF o.MatchFile.isNil THEN [p \in Paths |-> TRUE] ELSE o.MatchFile.f,
     visitedDestDirs |-> << >>]

\* New: the defaults of the two policies.
New(o) ==
    [uid |-> o.UID,
     gid |-> o.GID,
     abortIfDestParentDirNotExists |-> o.AbortIfDestParentDirNotExists,
     matchDir |->
        IF o.MatchDir.isNil /\ o.MatchFile.isNil THEN [p \in Paths |-> DirMatch]
        ELSE IF o.MatchDir.isNil THEN [p \in Paths |-> DirFallThrough]
        ELSE o.MatchDir.f,
     matchFile |->
        IF o.MatchFile.isNil THEN [p \in Paths |-> TRUE] ELSE o.MatchFile.f,
     visitedDestDirs |-> << >>]

\* A destination root that is a directory is the default and counts nothing.
DestSize(d, nd) == nd + (IF d[Root].type = "dir" THEN 0 ELSE 1)

\* One job runs; there are no parallel jobs.
NoJobs == [active |-> {}]
NoChain == [pc |-> "idle"]
NoNest == [pc |-> "idle"]
\* os.ReadDir lists the names in NameSeq's order; there was no run before.
Lexical ==
    [names |-> NameSeq, run |-> 1,
     first |-> [err |-> "none", dest |-> [p \in Paths |-> None], answers |-> {}]]

\* Where the parent of the destination root is no directory there is no
\* destination root: the two count as one.
InputSize(ns, d, nd, e) ==
    ns + DestSize(d, nd) + Switches(e)
       - (IF e.parent \notin {"dir", "linkdir"} THEN 1 ELSE 0)

Init ==
    \E ns \in 0..MaxInput : \E s \in SrcTreesBySize[ns] :
    \E nd \in 0..(MaxInput - ns) :
    \E d \in {x \in DestTreesBySize[nd] : ns + DestSize(x, nd) <= MaxInput} :
    \E e \in {x \in Envs : InputSize(ns, d, nd, x) <= MaxInput} :
    \E md \in MatchDirOptions(s) : \E mf \in MatchFileOptions(s) :
        /\ e.parent \notin {"dir", "linkdir"} => d[Root].type = "none"
        /\ src = s
        /\ dest = d
        /\ destParent = e.parent
        /\ umask = e.umask
        /\ opts = [UID |-> e.uid, GID |-> e.gid, MatchDir |-> md, MatchFile |-> mf,
                   AbortIfDestParentDirNotExists |-> e.abort]
        /\ c = New(opts)
        /\ pc = "run"
        /\ walk = << >>
        /\ copyq = << >>
        /\ err = "none"
        /\ log = << >>
        /\ dest0 = d
        /\ par = NoJobs
        /\ ctx = "active"
        /\ chain = NoChain
        /\ nest = NoNest
        /\ ord = Lexical

\* ------------------------------------------------------- filesystem calls

\* The operations of one callback thread a record through the calls:
\* t the destination tree, v visitedDestDirs, l the log, e whether a call
\* has returned an error (nothing runs after it).
World == [t |-> dest, v |-> c.visitedDestDirs, l |-> log, e |-> FALSE]

Ev(op, p, val) == [op |-> op, path |-> p, val |-> val]
Logged(w, op, p, val) == [w EXCEPT !.l = Append(@, Ev(op, p, val))]
\* A call returns an error: the callback returns it, wrapped, at once.
Fail(w) == [Logged(w, "error", Root, "") EXCEPT !.e = TRUE]

\* The system calls that may fail in one callback; "none": they all succeed.
Faults == {"none", "lstat", "mkdir", "copy"}

\* Whether the directory that holds destination path p exists.
ParentIsDir(t, p) ==
    IF p = Root THEN destParent \in {"dir", "linkdir"}
    ELSE t[Parent(p)].type = "dir"

\* os.RemoveAll(p): p and everything below it.
RemoveAll(w, p) ==
    IF w.t[p].type = "none" THEN w
    ELSE Logged([w EXCEPT !.t = [q \in Paths |-> IF IsPrefix(p, q) THEN None ELSE @[q]]],
                "removeAll", p, "")

\* os.Mkdir(p, perm): the kernel clears the bits of the umask; the new
\* directory belongs to the process.
Mkdir(w, p, perm, f) ==
    IF f = "mkdir" \/ w.t[p].type # "none" \/ ~ParentIsDir(w.t, p) THEN Fail(w)
    ELSE Logged([w EXCEPT !.t[p] = [type |-> "dir", mode |-> perm \ umask,
                                    uid |-> Proc.uid, gid |-> Proc.gid,
                                    data |-> NoData]],
                "mkdir", p, "")

\* os.Chmod(p, perm): the umask plays no part.
Chmod(w, p, perm) == Logged([w EXCEPT !.t[p].mode = perm], "chmod", p, "")

\* os.Lchown(p, uid, gid) and (*os.File).Chown(uid, gid).
Chown(w, p, uid, gid) ==
    Logged([w EXCEPT !.t[p].uid = uid, !.t[p].gid = gid], "chown", p, "")

\* srcFileInfo.Sys() is read only if one of the two overrides is nil.
NilStat == [uid |-> Nil, gid |-> Nil]
SrcStat(info) == IF c.uid = Nil \/ c.gid = Nil THEN info ELSE NilStat

\* getNewUIDAndGID with a gid that follows the UID override.
getNewUIDAndGID_GidFollowsUid(newDestUid, newDestGid, srcStat) ==
    [uid |-> IF newDestUid # Nil THEN newDestUid ELSE srcStat.uid,
     gid |-> IF newDestUid # Nil THEN newDestGid ELSE srcStat.gid]

getNewUIDAndGID(newDestUid, newDestGid, srcStat) ==
    [uid |-> IF newDestUid # Nil THEN newDestUid ELSE srcStat.uid,
     gid |-> IF newDestGid # Nil THEN newDestGid ELSE srcStat.gid]

processDirOwnership(w, p, srcStat) ==
    LET ids == getNewUIDAndGID(c.uid, c.gid, srcStat)
    IN  Chown(w, p, ids.uid, ids.gid)

\* processFileOwnership without the Chown.
processFileOwnership_NoChown(w, p, srcStat) == w

processFileOwnership(w, p, srcStat) ==
    LET ids == getNewUIDAndGID(c.uid, c.gid, srcStat)
    IN  Chown(w, p, ids.uid, ids.gid)

\* createEmptyDirInChain that removes whatever is at the path, a directory too.
createEmptyDirInChain_RemovesDir(w, p, f) ==
    LET srcFileInfo == src[p]
        perm == srcFileInfo.mode
        w0 == Logged(w, "dirInChain", p, "")
        w1 == Mkdir(RemoveAll(w0, p), p, perm, f)
    IN  IF srcFileInfo.type = "none" THEN Fail(w)
        ELSE IF w1.e THEN w1
        ELSE processDirOwnership(w1, p, SrcStat(srcFileInfo))

\* createEmptyDirInChain that takes whatever is at the path for a directory.
createEmptyDirInChain_KeepsNonDir(w, p, f) ==
    LET srcFileInfo == src[p]
        perm == srcFileInfo.mode
        w0 == Logged(w, "dirInChain", p, "")
        w1 == CASE w0.t[p].type = "none" -> Mkdir(w0, p, perm, f)
                [] w0.t[p].mode # perm -> Chmod(w0, p, perm)
                [] OTHER -> w0
    IN  IF srcFileInfo.type = "none" THEN Fail(w)
        ELSE IF w1.e THEN w1
        ELSE processDirOwnership(w1, p, SrcStat(srcFileInfo))

createEmptyDirInChain(w, p, f) ==
    LET srcFileInfo == src[p]
        perm == srcFileInfo.mode
        w0 == Logged(w, "dirInChain", p, "")
        w1 == CASE w0.t[p].type = "none" -> Mkdir(w0, p, perm, f)
                [] w0.t[p].type \notin {"none", "dir"} ->
                       Mkdir(RemoveAll(w0, p), p, perm, f)
                [] w0.t[p].type = "dir" /\ w0.t[p].mode # perm -> Chmod(w0, p, perm)
                [] OTHER -> w0
    IN  IF srcFileInfo.type = "none" THEN Fail(w)
        ELSE IF w1.e THEN w1
        ELSE processDirOwnership(w1, p, SrcStat(srcFileInfo))

\* sort.Slice(x, less) on fewer than 7 elements is, in every release of Go,
\* an insertion sort that asks less about positions; createEmptyDirsChain's
\* less is "i > j".
Less(i, j) == i > j
Swap(x, i, j) == [x EXCEPT ![i] = x[j], ![j] = x[i]]

RECURSIVE SiftDown(_, _)
SiftDown(x, j) ==
    IF j > 1 /\ Less(j, j - 1) THEN SiftDown(Swap(x, j, j - 1), j - 1) ELSE x

RECURSIVE InsertionSort(_, _)
InsertionSort(x, i) ==
    IF i > Len(x) THEN x ELSE InsertionSort(SiftDown(x, i), i + 1)

SortSlice(x) == InsertionSort(x, 2)

\* sort.Slice on at most 12 elements by release.  Before Go 1.19
\* (quickSort_func) a pass of Shell sort with gap 6 comes first, which asks
\* less(i, i-6) and swaps; from Go 1.19 on (pdqsort_func) the insertion sort
\* does it all.  less breaks the contract of sort.Slice (it orders positions,
\* not elements), so the result is whatever the release at hand does.
Builds == {"go1.18", "go1.19"}

RECURSIVE ShellPass(_, _)
ShellPass(x, i) ==
    IF i > Len(x) THEN x
    ELSE ShellPass(IF Less(i, i - 6) THEN Swap(x, i, i - 6) ELSE x, i + 1)

SortSliceOf(build, x) ==
    IF build = "go1.18" THEN InsertionSort(ShellPass(x, 7), 2) ELSE InsertionSort(x, 2)

\* dirsToVisit as built by the prepending loop: destPath first, c.dest last.
ChainOf(destPath) ==
    [i \in 1..(Len(destPath) + 1) |-> SubSeq(destPath, 1, Len(destPath) + 1 - i)]

InSeq(x, e) == \E i \in 1..Len(x) : x[i] = e
IndexOf(x, e) == CHOOSE i \in 1..Len(x) : x[i] = e /\ \A j \in 1..(i - 1) : x[j] # e

RECURSIVE PruneVisited(_, _, _)
\* The loop over visitedDestDirs: dirsToVisit is cut after the first element
\* that equals the visited directory.  << >> stands for the early return.
PruneVisited(dirsToVisit, visited, k) ==
    IF k > Len(visited) THEN dirsToVisit
    ELSE IF Len(dirsToVisit) = 0 THEN << >>
    ELSE IF InSeq(dirsToVisit, visited[k])
         THEN IF IndexOf(dirsToVisit, visited[k]) = 1 THEN << >>
              ELSE PruneVisited(SubSeq(dirsToVisit, 1, IndexOf(dirsToVisit, visited[k])),
                                visited, k + 1)
    ELSE PruneVisited(dirsToVisit, visited, k + 1)

RECURSIVE DirsInChain(_, _, _, _)
DirsInChain(w, dirs, i, f) ==
    IF i > Len(dirs) \/ w.e THEN w
    ELSE DirsInChain(createEmptyDirInChain(w, dirs[i], f), dirs, i + 1, f)

\* createEmptyDirsChain that does not look at visitedDestDirs.
createEmptyDirsChain_NoMemo(w, destPath, f) ==
    LET dirsToVisit == SortSlice(ChainOf(destPath))
        w1 == DirsInChain(w, dirsToVisit, 1, f)
    IN  IF w1.e THEN w1
        ELSE Logged([w1 EXCEPT !.v = @ \o dirsToVisit], "dirsChain", destPath, "")

createEmptyDirsChain(w, destPath, f) ==
    LET dirsToVisit == SortSlice(PruneVisited(ChainOf(destPath), w.v, 1))
        w1 == DirsInChain(w, dirsToVisit, 1, f)
    IN  IF InSeq(w.v, destPath) \/ dirsToVisit = << >>
        THEN Logged(w, "dirsChain", destPath, "")
        ELSE IF w1.e THEN w1
        ELSE Logged([w1 EXCEPT !.v = @ \o dirsToVisit], "dirsChain", destPath, "")

copyFile(w, p, srcFileInfo, srcStat, f) ==
    LET w1 == RemoveAll(w, p)
        w2 == Logged([w1 EXCEPT !.t[p] =
                        [type |-> "file", mode |-> srcFileInfo.mode,
                         uid |-> Proc.uid, gid |-> Proc.gid, data |-> NoData]],
                     "create", p, "")
        w3 == processFileOwnership(w2, p, srcStat)
    IN  IF ~ParentIsDir(w1.t, p) THEN Fail(w1)
        ELSE IF f = "copy" THEN Fail(w3)
        ELSE Logged([w3 EXCEPT !.t[p].data = srcFileInfo.data], "copyFile", p, "")

\* copySymlink that writes a regular file with the target string as content.
copySymlink_Dereferences(w, p, f) ==
    LET linkDestination == src[p].data
        w1 == RemoveAll(w, p)
    IN  IF f = "copy" \/ ~ParentIsDir(w1.t, p) THEN Fail(w1)
        ELSE Logged([w1 EXCEPT !.t[p] =
                        [type |-> "file", mode |-> ModePerm,
                         uid |-> Proc.uid, gid |-> Proc.gid,
                         data |-> linkDestination]],
                    "copySymlink", p, "")

copySymlink(w, p, f) ==
    LET linkDestination == src[p].data
        w1 == RemoveAll(w, p)
    IN  IF f = "copy" \/ ~ParentIsDir(w1.t, p) THEN Fail(w1)
        ELSE Logged([w1 EXCEPT !.t[p] =
                        [type |-> "symlink", mode |-> ModePerm,
                         uid |-> Proc.uid, gid |-> Proc.gid,
                         data |-> linkDestination]],
                    "copySymlink", p, "")

\* The warning as an error of the callback.
Warn_Fails(w, p) == Fail(Logged(w, "warn", p, ""))

Warn(w, p) == Logged(w, "warn", p, "")

\* copyRecurse without the comparison of dest with c.dest.
copyRecurseEntry_AlwaysChain(w, p, f) ==
    LET srcFileInfo == src[p]
        w1 == createEmptyDirsChain(w, IF p # Root THEN Parent(p) ELSE Root, f)
    IN  CASE f = "lstat" -> Fail(w)
          [] srcFileInfo.type = "file" ->
                 IF w1.e THEN w1
                 ELSE copyFile(w1, p, srcFileInfo, SrcStat(srcFileInfo), f)
          [] srcFileInfo.type = "symlink" ->
                 IF w1.e THEN w1 ELSE copySymlink(w1, p, f)
          [] OTHER -> Warn(w, p)

\* copyRecurse of a source entry that is no directory.
copyRecurseEntry(w, p, f) ==
    LET srcFileInfo == src[p]
        w1 == IF p # Root THEN createEmptyDirsChain(w, Parent(p), f) ELSE w
    IN  CASE f = "lstat" -> Fail(w)
          [] srcFileInfo.type = "file" ->
                 IF w1.e THEN w1
                 ELSE copyFile(w1, p, srcFileInfo, SrcStat(srcFileInfo), f)
          [] srcFileInfo.type = "symlink" ->
                 IF w1.e THEN w1 ELSE copySymlink(w1, p, f)
          [] OTHER -> Warn(w, p)

\* The callback of the walk of copyRecurse that asks matchFile about the
\* regular files.
copyWalkFn_AsksMatchFile(w, p, f) ==
    LET srcEntryFileInfo == src[p]
        w1 == createEmptyDirsChain(w, Parent(p), f)
    IN  CASE f = "lstat" -> Fail(w)
          [] srcEntryFileInfo.type = "dir" -> createEmptyDirsChain(w, p, f)
          [] srcEntryFileInfo.type = "file" /\ c.matchFile[p] ->
                 IF w1.e THEN w1 ELSE copyFile(w1, p, srcEntryFileInfo, srcEntryFileInfo, f)
          [] srcEntryFileInfo.type = "symlink" ->
                 IF w1.e THEN w1 ELSE copySymlink(w1, p, f)
          [] OTHER -> Warn(w, p)

\* The callback of the walk of copyRecurse of a directory, for one entry.
copyWalkFn(w, p, f) ==
    LET srcEntryFileInfo == src[p]
        w1 == createEmptyDirsChain(w, Parent(p), f)
    IN  CASE f = "lstat" -> Fail(w)
          [] srcEntryFileInfo.type = "dir" -> createEmptyDirsChain(w, p, f)
          [] srcEntryFileInfo.type = "file" ->
                 IF w1.e THEN w1 ELSE copyFile(w1, p, srcEntryFileInfo, srcEntryFileInfo, f)
          [] srcEntryFileInfo.type = "symlink" ->
                 IF w1.e THEN w1 ELSE copySymlink(w1, p, f)
          [] OTHER -> Warn(w, p)

\* ------------------------------------------------------------------- walk

RECURSIVE PreOrder(_, _)
RECURSIVE PreOrderKids(_, _, _)
\* fs.WalkDir: the directory, then its entries in the order ReadDir lists
\* them (ord.names), each followed by what is below it.
PreOrder(t, p) ==
    IF t[p].type = "dir" /\ Len(p) < MaxInput THEN <<p>> \o PreOrderKids(t, p, 1)
    ELSE <<p>>

PreOrderKids(t, p, i) ==
    IF i > Len(ord.names) THEN << >>
    ELSE (IF t[Append(p, ord.names[i])].type = "none" THEN << >>
          ELSE PreOrder(t, Append(p, ord.names[i])))
         \o PreOrderKids(t, p, i + 1)

\* fs.SkipDir returned for directory p: nothing below p is visited.
SkipBelow(q, p) == SelectSeq(q, LAMBDA x : ~IsPrefix(p, x))

\* ---------------------------------------------------------------- actions

\* What Run keeps of a callback's work.
Keep(w) ==
    /\ dest' = w.t
    /\ c' = [c EXCEPT !.visitedDestDirs = w.v]
    /\ log' = w.l

Return(kind) == pc' = "done" /\ err' = kind /\ walk' = << >> /\ copyq' = << >>

\* The parent of the destination root is not there as a directory:
\* prepareDestParentDir creates it, or recreateParentDir does.
NoDestParent == destParent \in {"missing", "file", "linkfile", "linkdangling"}

\* prepareDestParentDir that creates the parent whatever the option says.
PrepareDestParentDir_IgnoresAbort ==
    /\ pc = "run"
    /\ UNCHANGED <<src, dest, umask, opts, c, log, dest0, par, ctx, chain, nest, ord>>
    /\ \E f \in {"none", "mkdir"} :
         IF NoDestParent /\ f = "mkdir"
         THEN Return("fs") /\ destParent' = "missing"
         ELSE /\ destParent' = IF NoDestParent THEN "dir" ELSE destParent
              /\ pc' = "walk"
              /\ walk' = PreOrder(src, Root)
              /\ UNCHANGED <<copyq, err>>

\* prepareDestParentDir whose recreateParentDir does not look at the option.
PrepareDestParentDir_AbortsOnlyIfMissing ==
    /\ pc = "run"
    /\ UNCHANGED <<src, dest, umask, opts, c, log, dest0, par, ctx, chain, nest, ord>>
    /\ \E f \in {"none", "mkdir"} :
         IF destParent = "missing" /\ c.abortIfDestParentDirNotExists
         THEN Return("abort") /\ UNCHANGED destParent
         ELSE IF NoDestParent /\ f = "mkdir"
         THEN Return("fs") /\ destParent' = "missing"
         ELSE /\ destParent' = IF NoDestParent THEN "dir" ELSE destParent
              /\ pc' = "walk"
              /\ walk' = PreOrder(src, Root)
              /\ UNCHANGED <<copyq, err>>

\* prepareDestParentDir and recreateParentDir (os.MkdirAll may fail, after
\* os.RemoveAll has removed what was no directory), then the Lstat of
\* walkPath.
PrepareDestParentDir ==
    /\ pc = "run"
    /\ UNCHANGED <<src, dest, umask, opts, c, log, dest0, par, ctx, chain, nest, ord>>
    /\ \E f \in {"none", "mkdir"} :
         IF NoDestParent /\ c.abortIfDestParentDirNotExists
         THEN Return("abort") /\ UNCHANGED destParent
         ELSE IF NoDestParent /\ f = "mkdir"
         THEN Return("fs") /\ destParent' = "missing"
         ELSE /\ destParent' = IF NoDestParent THEN "dir" ELSE destParent
              /\ pc' = "walk"
              /\ walk' = PreOrder(src, Root)
              /\ UNCHANGED <<copyq, err>>

\* An error is the chain of its wrappers, the outermost first; nil is the
\* empty chain.  fmt.Errorf("...: %w", e) puts a wrapper around e, errors.Is
\* looks for the target along the chain, == compares the error itself.
NoError == << >>
SkipDir == <<"fs.SkipDir">>
Wrap(msg, e) == <<msg>> \o e
ErrorsIs(e, target) == \E i \in 1..Len(e) : SubSeq(e, i, Len(e)) = target

\* The errors a policy of the caller may return: an error of its own, or one
\* of the standard library (fs.SkipDir here).
PolicyErrorValues == {<<"failure">>, SkipDir}

\* A policy of the caller may return an error; the policies New puts in the
\* place of a nil one never do.
PolicyErrors(option) == IF option.isNil THEN {} ELSE PolicyErrorValues

\* What the debug log shows of a policy's answer.
ErrText(e) == IF ErrorsIs(e, SkipDir) THEN "error fs.SkipDir" ELSE "error"

\* processDir that makes the directory it is to look into.
dirFallThrough_Materializes(w, p) == createEmptyDirsChain(w, p, "none")

\* processDir, case DirFallThrough: a debug line, and nil.
dirFallThrough(w, p) == w

\* processDir for the next entry of the walk, a directory, and what Run's
\* callback makes of its result.
ProcessDir ==
    /\ pc = "walk" /\ walk # << >> /\ src[Head(walk)].type = "dir"
    /\ UNCHANGED <<src, destParent, umask, opts, dest0, par, ctx, chain, nest, ord>>
    /\ LET p == Head(walk)
       IN  IF p = Root
           THEN walk' = Tail(walk) /\ UNCHANGED <<dest, c, pc, copyq, err, log>>
           ELSE \E perr \in {NoError} \cup PolicyErrors(opts.MatchDir) :
                \E f \in {"none", "lstat"} :
                  LET action == c.matchDir[p]
                      w0 == Logged(World, "matchDir", p,
                                   IF perr # NoError THEN ErrText(perr) ELSE action)
                      w == IF perr = NoError /\ action = DirMatch /\ f = "lstat"
                           THEN Fail(w0)
                           ELSE IF perr = NoError /\ action = DirFallThrough
                           THEN dirFallThrough(w0, p)
                           ELSE w0
                      ret == IF perr # NoError
                                 THEN Wrap("error matching directory", perr)
                             ELSE IF action = DirSkip THEN SkipDir
                             ELSE IF w.e
                                 THEN Wrap("error copying directory", <<"lstat">>)
                             ELSE NoError
                  IN  /\ Keep(w)
                      /\ IF ErrorsIs(ret, SkipDir)
                         THEN /\ walk' = SkipBelow(Tail(walk), p)
                              /\ UNCHANGED <<pc, copyq, err>>
                         ELSE IF ret # NoError
                         THEN Return(IF perr # NoError THEN "policy" ELSE "fs")
                         ELSE IF action = DirMatch
                         THEN /\ pc' = "copy"
                              /\ copyq' = PreOrder(src, p)
                              /\ walk' = Tail(walk)
                              /\ UNCHANGED err
                         ELSE /\ walk' = Tail(walk)
                              /\ UNCHANGED <<pc, copyq, err>>

\* processFile for the next entry of the walk, which is no directory; Run's
\* callback wraps its error, and fs.WalkDir compares what it gets with ==.
ProcessFile ==
    /\ pc = "walk" /\ walk # << >> /\ src[Head(walk)].type # "dir"
    /\ UNCHANGED <<src, destParent, umask, opts, dest0, par, ctx, chain, nest, ord>>
    /\ LET p == Head(walk)
           match == c.matchFile[p]
       IN  \E perr \in {NoError} \cup PolicyErrors(opts.MatchFile) :
           \E f \in Faults :
             LET w0 == Logged(World, "matchFile", p,
                              IF perr # NoError THEN ErrText(perr)
                              ELSE IF match THEN "true" ELSE "false")
                 w  == IF perr = NoError /\ match THEN copyRecurseEntry(w0, p, f) ELSE w0
                 ret == IF perr # NoError
                            THEN Wrap("error processing file",
                                      Wrap("error matching file", perr))
                        ELSE IF w.e
                            THEN Wrap("error processing file", <<"copy">>)
                        ELSE NoError
             IN  /\ Keep(w)
                 /\ IF ret = SkipDir
                    THEN /\ walk' = SkipBelow(Tail(walk), Parent(p))
                         /\ UNCHANGED <<pc, copyq, err>>
                    ELSE IF ret # NoError
                    THEN Return(IF perr # NoError THEN "policy" ELSE "fs")
                    ELSE walk' = Tail(walk) /\ UNCHANGED <<pc, copyq, err>>

\* The callback of copyRecurse's walk for its next entry; after the last one
\* copyRecurse and processDir return and the walk of Run goes on.
CopyWalkEntry ==
    /\ pc = "copy" /\ copyq # << >>
    /\ UNCHANGED <<src, destParent, umask, opts, dest0, par, ctx, chain, nest, ord>>
    /\ \E f \in Faults :
         LET w == copyWalkFn(World, Head(copyq), f)
         IN  /\ Keep(w)
             /\ IF w.e THEN Return("fs")
                ELSE /\ copyq' = Tail(copyq)
                     /\ pc' = IF Tail(copyq) = << >> THEN "walk" ELSE "copy"
                     /\ UNCHANGED <<walk, err>>

\* The walk is over: Run returns nil.
Finish ==
    /\ pc = "walk" /\ walk = << >>
    /\ pc' = "done"
    /\ UNCHANGED <<src, dest, destParent, umask, opts, c, walk, copyq, err, log, dest0, par, ctx, chain, nest, ord>>

\* The caller cancels the context it has passed to Run, while Run is at work.
\* No step of Run reads ctx but to find its logger.
Cancel ==
    /\ pc # "done" /\ ctx = "active"
    /\ ctx' = "canceled"
    /\ UNCHANGED <<src, dest, destParent, umask, opts, c, pc, walk, copyq, err, log, dest0, par, chain, nest, ord>>

Next ==
    \/ Cancel
    \/ PrepareDestParentDir
    \/ ProcessDir
    \/ ProcessFile
    \/ CopyWalkEntry
    \/ Finish

Spec == Init /\ [][Next]_vars

\* ------------------------------------------------------------ second run

Entries(t) == Cardinality({p \in Paths : t[p].type # "none"})

\* The caller calls Run a second time on the CopyRecurse object, whose
\* fields are as the first Run left them; in between the caller may have
\* removed the destination tree.  Taken for the inputs that leave room for it.
RunAgain ==
    /\ pc = "done" /\ \A i \in 1..Len(log) : log[i].op # "run"
    /\ Entries(src) + Entries(dest0) < MaxInput
    /\ \E removed \in BOOLEAN :
         dest' = IF removed THEN [p \in Paths |-> None] ELSE dest
    /\ pc' = "run" /\ err' = "none"
    /\ log' = Append(log, Ev("run", Root, ""))
    /\ UNCHANGED <<src, destParent, umask, opts, c, walk, copyq, dest0, par, ctx, chain, nest, ord>>

AgainNext ==
    \/ Next
    \/ RunAgain

AgainSpec == Init /\ [][AgainNext]_vars

\* ------------------------------------------------------- order of siblings

PolicyOps == {"matchDir", "matchFile"}
\* What the policies were asked and what they answered, as the log has it.
PolicyAnswers(l) ==
    {<<l[i].op, l[i].path, l[i].val>> : i \in {j \in 1..Len(l) : l[j].op \in PolicyOps}}

\* The orders a directory's entries may be listed in.
Orders == {o \in [1..Len(NameSeq) -> Names] : \A n \in Names : \E i \in 1..Len(NameSeq) : o[i] = n}

\* A source of up to MaxInput entries under each policy, to be copied to a
\* destination that is missing or empty, under each umask.
OrderInit ==
    \E ns \in 0..MaxInput : \E s \in SrcTreesBySize[ns] :
    \E d \in {x \in DestTreesBySize[0] : x[Root].type \in {"none", "dir"}} :
    \E u \in Umasks :
    \E md \in MatchDirOptions(s) : \E mf \in MatchFileOptions(s) :
        /\ src = s /\ dest = d /\ dest0 = d
        /\ destParent = "dir" /\ umask = u
        /\ opts = [UID |-> Nil, GID |-> Nil, MatchDir |-> md, MatchFile |-> mf,
                   AbortIfDestParentDirNotExists |-> FALSE]
        /\ c = New(opts)
        /\ pc = "run" /\ walk = << >> /\ copyq = << >> /\ err = "none" /\ log = << >>
        /\ par = NoJobs /\ ctx = "active" /\ chain = NoChain /\ nest = NoNest
        /\ ord = Lexical

\* Run has returned with no error of a system call.  A second CopyRecurse
\* object is made by New from the same options and its Run starts from the
\* same source and the destination as it was, with the directories listed
\* in another order; what the first Run returned and left, and what the
\* policies told it, is kept aside.  The caller cancels neither.
RunOther ==
    /\ pc = "done" /\ ord.run = 1 /\ err # "fs"
    /\ \E o \in Orders \ {ord.names} :
         ord' = [names |-> o, run |-> 2,
                 first |-> [err |-> err, dest |-> dest, answers |-> PolicyAnswers(log)]]
    /\ dest' = dest0
    /\ c' = New(opts)
    /\ pc' = "run" /\ err' = "none" /\ log' = << >>
    /\ UNCHANGED <<src, destParent, umask, opts, walk, copyq, dest0, par, ctx, chain, nest>>

OrderNext ==
    \/ PrepareDestParentDir
    \/ ProcessDir
    \/ ProcessFile
    \/ CopyWalkEntry
    \/ Finish
    \/ RunOther

OrderSpec == OrderInit /\ [][OrderNext]_vars

\* ---------------------------------------------------------- parallel runs

\* Two jobs, each with a source of one regular file, whose destination roots
\* are different directories: of the same parent directory, or of two.  A
\* step is one system call of one job.  par.tree[j] is what job j's
\* destination holds: 0 nothing, 1 the root directory, 2 the root directory
\* with the file in it.
Jobs == {1, 2}
ParKinds == {"missing", "file", "dir"}

Idle ==
    /\ src = [p \in Paths |-> None] /\ dest = src /\ dest0 = src
    /\ destParent = "dir" /\ umask = {}
    /\ opts = [UID |-> Nil, GID |-> Nil,
               MatchDir |-> [isNil |-> TRUE, f |-> NoDirPolicy],
               MatchFile |-> [isNil |-> TRUE, f |-> NoFilePolicy],
               AbortIfDestParentDirNotExists |-> FALSE]
    /\ c = New(opts)
    /\ pc = "idle" /\ walk = << >> /\ copyq = << >> /\ err = "none" /\ log = << >>
    /\ ctx = "active"
    /\ ord = Lexical

ParInit ==
    /\ Idle /\ chain = NoChain /\ nest = NoNest
    /\ \E act \in (SUBSET Jobs) \ {{}} : \E shared \in BOOLEAN :
       \E kinds \in [Jobs -> ParKinds] : \E ab \in [Jobs -> BOOLEAN] :
         par = [active  |-> act,
                of      |-> [j \in Jobs |-> IF shared THEN 1 ELSE j],
                parent  |-> kinds,
                parent0 |-> kinds,
                abort   |-> ab,
                tree    |-> [j \in Jobs |-> 0],
                pc      |-> [j \in Jobs |-> IF j \in act THEN "lstat" ELSE "idle"],
                err     |-> [j \in Jobs |-> "none"]]

ParKeep ==
    UNCHANGED <<src, dest, destParent, umask, opts, c, pc, walk, copyq, err, log, dest0, ctx, chain, nest, ord>>
ParParent(j) == par.parent[par.of[j]]
ParReturn(j, e) == par' = [par EXCEPT !.pc[j] = "done", !.err[j] = e]

\* prepareDestParentDir: os.Lstat of the parent, and the branch it takes.
ParLstat(j) ==
    /\ par.pc[j] = "lstat" /\ ParKeep
    /\ IF ParParent(j) = "dir" THEN par' = [par EXCEPT !.pc[j] = "mkroot"]
       ELSE IF par.abort[j] THEN ParReturn(j, "abort")
       ELSE IF ParParent(j) = "missing" THEN par' = [par EXCEPT !.pc[j] = "mkdirAll"]
       ELSE par' = [par EXCEPT !.pc[j] = "removeAll"]

\* recreateParentDir: os.RemoveAll of whatever is at the parent's path now.
ParRemoveAll(j) ==
    /\ par.pc[j] = "removeAll" /\ ParKeep
    /\ par' = [par EXCEPT !.pc[j] = "mkdirAll",
                          !.parent[par.of[j]] = "missing",
                          !.tree = [i \in Jobs |-> IF par.of[i] = par.of[j] THEN 0 ELSE @[i]]]

\* os.MkdirAll of the parent.
ParMkdirAll(j) ==
    /\ par.pc[j] = "mkdirAll" /\ ParKeep
    /\ IF ParParent(j) = "file" THEN ParReturn(j, "fs")
       ELSE par' = [par EXCEPT !.pc[j] = "mkroot", !.parent[par.of[j]] = "dir"]

\* createEmptyDirInChain of the destination root: os.Mkdir.
ParMkdirRoot(j) ==
    /\ par.pc[j] = "mkroot" /\ ParKeep
    /\ IF ParParent(j) # "dir" THEN ParReturn(j, "fs")
       ELSE par' = [par EXCEPT !.pc[j] = "copy", !.tree[j] = 1]

\* copyFile: os.Create of the file in the destination root, and io.Copy.
ParCopyFile(j) ==
    /\ par.pc[j] = "copy" /\ ParKeep
    /\ IF ParParent(j) # "dir" \/ par.tree[j] = 0 THEN ParReturn(j, "fs")
       ELSE par' = [par EXCEPT !.pc[j] = "done", !.tree[j] = 2]

ParNext ==
    \/ \E j \in Jobs : ParLstat(j)
    \/ \E j \in Jobs : ParRemoveAll(j)
    \/ \E j \in Jobs : ParMkdirAll(j)
    \/ \E j \in Jobs : ParMkdirRoot(j)
    \/ \E j \in Jobs : ParCopyFile(j)

ParSpec == ParInit /\ [][ParNext]_vars

\* ------------------------------------------------------------ deep chains

\* One call of createEmptyDirsChain for a destination path of up to
\* MaxChain - 1 names, with nothing visited yet, of which the first
\* chain.exist directories (the destination root is the first) are there
\* already.  A step is the building and sorting of dirsToVisit, or one call
\* of createEmptyDirInChain.
DeepPath(n) == [i \in 1..n |-> NameSeq[1]]

ChainInit ==
    /\ Idle /\ par = NoJobs /\ nest = NoNest
    /\ \E n \in 0..(MaxChain - 1) : \E e \in 0..(n + 1) : \E b \in Builds :
         chain = [pc |-> "sort", build |-> b, destPath |-> DeepPath(n), exist |-> e,
                  dirsToVisit |-> << >>, visited |-> 0, made |-> {}, err |-> FALSE]

ChainKeep ==
    UNCHANGED <<src, dest, destParent, umask, opts, c, pc, walk, copyq, err, log, dest0, par, ctx, nest, ord>>

ChainExists(p) == Len(p) < chain.exist \/ p \in chain.made

\* createEmptyDirsChain up to its loop: dirsToVisit is built, pruned and
\* sorted.
ChainSort ==
    /\ chain.pc = "sort" /\ ChainKeep
    /\ chain' = [chain EXCEPT
                   !.pc = "dirs",
                   !.dirsToVisit = SortSliceOf(chain.build,
                                       PruneVisited(ChainOf(chain.destPath), << >>, 1))]

\* createEmptyDirInChain for the next element of dirsToVisit: os.Mkdir when
\* the directory is not there, which fails when its parent is not there.
ChainDirInChain ==
    /\ chain.pc = "dirs" /\ chain.visited < Len(chain.dirsToVisit) /\ ChainKeep
    /\ LET p == chain.dirsToVisit[chain.visited + 1]
       IN  IF ChainExists(p)
           THEN chain' = [chain EXCEPT !.visited = @ + 1]
           ELSE IF p = Root \/ ChainExists(Parent(p))
           THEN chain' = [chain EXCEPT !.visited = @ + 1, !.made = @ \cup {p}]
           ELSE chain' = [chain EXCEPT !.visited = @ + 1, !.pc = "done", !.err = TRUE]

\* The loop is over: createEmptyDirsChain returns nil.
ChainReturn ==
    /\ chain.pc = "dirs" /\ chain.visited = Len(chain.dirsToVisit) /\ ChainKeep
    /\ chain' = [chain EXCEPT !.pc = "done"]

ChainNext ==
    \/ ChainSort
    \/ ChainDirInChain
    \/ ChainReturn

ChainSpec == ChainInit /\ [][ChainNext]_vars

\* ------------------------------------------------- destination in source

\* A run in one file tree: the source root is the directory s, the
\* destination root is t, beside it, or s/d, inside it.  An entry is a
\* directory or a regular file; nest.dirs and nest.files are the paths that
\* exist.  Both policies are nil (every directory is DirMatch), or MatchDir
\* is nil and MatchFile says true (every directory is DirFallThrough).
\* fs.WalkDir lists a directory when it enters it, after the callback for the
\* directory has returned: what Run has written there by then is listed.
NestNameSeq == <<"d", "f">>
SrcRoot == <<"s">>
NestDests == {<<"t">>, <<"s", "d">>}
NestContents ==
    {x \in SUBSET {<<"s", "f">>, <<"s", "d">>, <<"s", "d", "f">>, <<"t">>} :
        <<"s", "d", "f">> \in x => <<"s", "d">> \in x}

NestInit ==
    /\ Idle /\ par = NoJobs /\ chain = NoChain
    /\ \E d \in NestDests : \E m \in {"match", "fallthrough"} : \E x \in NestContents :
         nest = [pc |-> "walk", dest |-> d, mode |-> m,
                 dirs |-> {SrcRoot} \cup (x \cap {<<"s", "d">>, <<"t">>}),
                 files |-> x \cap {<<"s", "f">>, <<"s", "d", "f">>},
                 outer |-> <<SrcRoot>>, inner |-> << >>, err |-> FALSE]

NestKeep ==
    UNCHANGED <<src, dest, destParent, umask, opts, c, pc, walk, copyq, err, log, dest0, par, ctx, chain, ord>>

\* A listing that holds the entry "." of the directory and nothing else.
NestReadDir_ListsDot(n, p) == <<p>>

\* os.ReadDir of directory p: its entries, sorted by name.
NestReadDir(n, p) ==
    SelectSeq([i \in 1..Len(NestNameSeq) |-> Append(p, NestNameSeq[i])],
              LAMBDA q : q \in n.dirs \cup n.files)

\* filepath.Join(c.dest, relEntryPath) for source path p.
NestDest(n, p) == n.dest \o SubSeq(p, Len(SrcRoot) + 1, Len(p))

NestRemoveAll(n, q) ==
    [n EXCEPT !.dirs = {x \in @ : ~IsPrefix(q, x)}, !.files = {x \in @ : ~IsPrefix(q, x)}]

\* The system calls fail with ENAMETOOLONG for a path of more than MaxPath
\* names.
NestTooLong(q) == Len(q) > MaxPath

\* createEmptyDirsChain(q): the directories from c.dest down to q are made,
\* in place of what is no directory, as far as the paths are not too long.
NestDirsChain(n, q) ==
    LET made == {SubSeq(q, 1, k) : k \in {i \in Len(n.dest)..Len(q) : i <= MaxPath}}
    IN  [n EXCEPT !.dirs = @ \cup made, !.files = @ \ made, !.err = NestTooLong(q)]

\* copyFile to q.
NestCopyFile(n, q) ==
    IF NestTooLong(q) THEN [n EXCEPT !.err = TRUE]
    ELSE [NestRemoveAll(n, q) EXCEPT !.files = @ \cup {q}]

\* copyRecurse of source entry p, a regular file.
NestCopyEntry(n, p) ==
    LET n1 == NestDirsChain(n, Parent(NestDest(n, p)))
    IN  IF p \notin n.files THEN [n EXCEPT !.err = TRUE]
        ELSE IF n1.err THEN n1
        ELSE NestCopyFile(n1, NestDest(n, p))

NestReturn(n) == nest' = [n EXCEPT !.pc = "done", !.outer = << >>, !.inner = << >>]

\* Run's callback for the next entry of its walk: processDir or processFile;
\* after a directory fs.WalkDir lists it, unless copyRecurse has to walk it
\* first.
NestProcess ==
    /\ nest.pc = "walk" /\ nest.outer # << >> /\ NestKeep
    /\ LET p == Head(nest.outer)
           n1 == NestCopyEntry(nest, p)
       IN  IF p \in nest.dirs
           THEN IF p = SrcRoot \/ nest.mode = "fallthrough"
                THEN nest' = [nest EXCEPT !.outer = NestReadDir(nest, p) \o Tail(@)]
                ELSE nest' = [nest EXCEPT !.pc = "copy", !.inner = <<p>>]
           ELSE IF n1.err THEN NestReturn(n1)
                ELSE nest' = [n1 EXCEPT !.outer = Tail(@)]

\* The callback of copyRecurse's walk for its next entry; after a directory
\* fs.WalkDir lists it.
NestCopyWalkEntry ==
    /\ nest.pc = "copy" /\ nest.inner # << >> /\ NestKeep
    /\ LET q == Head(nest.inner)
           n1 == IF q \in nest.dirs THEN NestDirsChain(nest, NestDest(nest, q))
                 ELSE NestCopyEntry(nest, q)
       IN  IF n1.err THEN NestReturn(n1)
           ELSE IF q \in nest.dirs
           THEN nest' = [n1 EXCEPT !.inner = NestReadDir(n1, q) \o Tail(@)]
           ELSE nest' = [n1 EXCEPT !.inner = Tail(@)]

\* copyRecurse and processDir return nil, and fs.WalkDir of Run lists the
\* directory that was copied.
NestCopyReturn ==
    /\ nest.pc = "copy" /\ nest.inner = << >> /\ NestKeep
    /\ nest' = [nest EXCEPT !.pc = "walk",
                            !.outer = NestReadDir(nest, Head(@)) \o Tail(@)]

\* The walk is over: Run returns nil.
NestFinish ==
    /\ nest.pc = "walk" /\ nest.outer = << >> /\ NestKeep
    /\ nest' = [nest EXCEPT !.pc = "done"]

NestNext ==
    \/ NestProcess
    \/ NestCopyWalkEntry
    \/ NestCopyReturn
    \/ NestFinish

\* Run is one thread that goes on as long as it has not returned.
NestSpec == NestInit /\ [][NestNext]_vars /\ WF_vars(NestNext)

\* ------------------------------------------------------------- properties

Done == pc = "done"
Succeeded == pc = "done" /\ err = "none"

Happened(op, p) == \E i \in 1..Len(log) : log[i].op = op /\ log[i].path = p
Returned(op, p, val) ==
    \E i \in 1..Len(log) : log[i].op = op /\ log[i].path = p /\ log[i].val = val

\* Run has copied the regular file, or the symlink, at p; Run has
\* materialized directory p.
CopiedFile(p) == Happened("copyFile", p)
CopiedLink(p) == Happened("copySymlink", p)
Materialized(p) == InSeq(c.visitedDestDirs, p)

Copyable == {"dir", "file", "symlink"}

\* The destination entry at p is a copy of the source entry at p.
IsCopy(p) == dest[p].type = src[p].type /\ dest[p].data = src[p].data

NoOverride == c.uid = Nil /\ c.gid = Nil

\* C1: with no ownership override, after a successful Run every regular file
\* that Run copied is in the destination at the same relative path with the
\* content, permission bits, uid and gid of the source file.
C1_FileCopiedWithAttributes ==
    (Succeeded /\ NoOverride) =>
        \A p \in Paths : CopiedFile(p) => dest[p] = src[p]

\* C1 witness: a run without overrides ended well after it copied, over an
\* entry somebody else owned, a file that does not belong to the process.
C1_Witness ==
    /\ Succeeded /\ NoOverride
    /\ \E p \in Paths :
         CopiedFile(p) /\ dest0[p].type # "none" /\ src[p].uid # Proc.uid

\* C2: after a successful Run, nothing has appeared at or below a directory
\* for which directoryPolicy returned Skip, and the siblings of that
\* directory which the policies included are copies of their sources.
C2_SkipLeavesNothing ==
    Succeeded =>
        \A D \in Paths : Returned("matchDir", D, DirSkip) =>
            /\ \A p \in Paths :
                 (IsPrefix(D, p) /\ dest0[p].type = "none") => dest[p].type = "none"
            /\ \A q \in Paths :
                 (q # D /\ q # Root /\ Parent(q) = Parent(D)) =>
                    /\ Returned("matchFile", q, "true") /\ src[q].type \in Copyable
                         => IsCopy(q)
                    /\ Returned("matchDir", q, DirMatch) => IsCopy(q)

\* C3 as stated: after a successful Run, every entry at or below a
\* directory for which directoryPolicy returned Include is copied.
C3_IncludeCopiesEveryEntry ==
    Succeeded =>
        \A D \in Paths : Returned("matchDir", D, DirMatch) =>
            \A p \in Paths : (IsPrefix(D, p) /\ src[p].type # "none") => IsCopy(p)

\* C3 amended: after a successful Run, every directory, regular file and
\* symlink at or below a directory for which directoryPolicy returned Include
\* is copied, whatever filePolicy says of it.
C3_IncludeCopiesSubtree ==
    Succeeded =>
        \A D \in Paths : Returned("matchDir", D, DirMatch) =>
            \A p \in Paths : (IsPrefix(D, p) /\ src[p].type \in Copyable) => IsCopy(p)

\* C3 witness: a file that filePolicy rejects, below an included directory,
\* is in the destination after a successful Run.
C3_Witness ==
    /\ Succeeded
    /\ \E D \in Paths, p \in Paths :
         /\ Returned("matchDir", D, DirMatch) /\ Below(D, p)
         /\ src[p].type = "file" /\ ~c.matchFile[p] /\ IsCopy(p)

NoPolicies == opts.MatchDir.isNil /\ opts.MatchFile.isNil

\* C4 as stated: with no policy set, after a successful Run every directory
\* of the source tree (the root included), every regular file and every
\* symlink is at the same relative path in the destination.
C4_WholeTreeWithRoot ==
    (Succeeded /\ NoPolicies) =>
        \A p \in Paths : src[p].type \in Copyable => dest[p].type = src[p].type

\* The source root is a directory that holds nothing Run copies.
NothingToCopy ==
    /\ src[Root].type = "dir"
    /\ \A q \in Paths \ {Root} : src[q].type \notin Copyable

\* C4 amended: with no policy set, after a successful Run every directory,
\* regular file and symlink below the source root, and a source root that is
\* a regular file or a symlink, is at the same relative path in the
\* destination; the destination root of a source root directory is a
\* directory if the source root holds a directory, regular file or symlink,
\* and is left as it was if it holds none.
C4_WholeTreeCopied ==
    (Succeeded /\ NoPolicies) =>
        /\ \A p \in Paths :
             (src[p].type \in Copyable /\ ~(p = Root /\ NothingToCopy))
                => dest[p].type = src[p].type
        /\ NothingToCopy => dest[Root] = dest0[Root]

\* C4 witness: with no policy set and no destination yet, a successful Run
\* has copied a file two directories below the source root.
C4_Witness ==
    /\ Succeeded /\ NoPolicies /\ dest0[Root].type = "none"
    /\ \E p \in Paths : Len(p) >= 2 /\ src[p].type = "file" /\ IsCopy(p)

OnlyFilePolicy == opts.MatchDir.isNil /\ ~opts.MatchFile.isNil

\* Run was asked for the regular file or symlink at p.
Wanted(p) == src[p].type \in {"file", "symlink"} /\ opts.MatchFile.f[p]

\* C5: with only filePolicy set, directoryPolicy answers FallThrough for every
\* directory, and after a successful Run the entries other than directories
\* that Run created are exactly the source files and symlinks filePolicy
\* accepts: each of these is in the destination, and one that filePolicy
\* rejects is not created (it is absent if it was absent before).
C5_OnlyFilePolicy ==
    OnlyFilePolicy =>
        /\ \A i \in 1..Len(log) :
             log[i].op = "matchDir" => log[i].val = DirFallThrough
        /\ Succeeded =>
             \A p \in Paths :
                /\ (Happened("create", p) \/ CopiedLink(p)) <=> Wanted(p)
                /\ Wanted(p) => IsCopy(p)
                /\ dest[p].type \notin {"none", "dir"} => (Wanted(p) \/ dest[p] = dest0[p])
                /\ (~Wanted(p) /\ dest0[p].type = "none" /\ src[p].type # "dir")
                      => dest[p].type = "none"

\* C5 witness: with only filePolicy set, a successful Run copied an accepted
\* file below a directory and left out a rejected one.
C5_Witness ==
    /\ Succeeded /\ OnlyFilePolicy
    /\ \E p \in Paths, q \in Paths :
         /\ Len(p) >= 2 /\ src[p].type = "file" /\ Wanted(p) /\ IsCopy(p)
         /\ src[q].type = "file" /\ ~Wanted(q) /\ dest[q].type = "none"

\* Run removed what was at a path above p, with whatever held p, to write
\* the regular file or the symlink the source has there.
ReplacedAbove(p) ==
    \E q \in Paths :
        Below(q, p) /\ Happened("removeAll", q) /\ src[q].type \in {"file", "symlink"}

\* C6: when Run is over, an entry that was in the destination before Run, at
\* a path where the source has nothing, and above which Run replaced nothing,
\* is as it was: same type, content, permission bits and ownership.
C6_MergeKeepsForeignEntries ==
    Done =>
        \A p \in Paths :
            (dest0[p].type # "none" /\ src[p].type = "none" /\ ~ReplacedAbove(p))
                => dest[p] = dest0[p]

\* C6 witness: Run materialized a directory that existed before and held an
\* entry the source does not have; the entry is still there.
C6_Witness ==
    /\ Done
    /\ \E p \in Paths :
         /\ Len(p) >= 2 /\ dest0[p].type # "none" /\ src[p].type = "none"
         /\ Materialized(Parent(p)) /\ dest[p] = dest0[p]

\* Run has copied the symlink at p and has not removed it since (Run removes
\* the path again when it comes to copy the entry a second time).
LinkInPlace(p) ==
    \E i \in 1..Len(log) :
        /\ log[i].op = "copySymlink" /\ log[i].path = p
        /\ \A j \in (i + 1)..Len(log) : ~(log[j].op = "removeAll" /\ log[j].path = p)

Disagree(p) ==
    dest0[p].type # "none" /\ src[p].type # "none" /\ dest0[p].type # src[p].type

\* C7 as stated: when Run is over, wherever the destination and the source
\* disagreed on the type of the entry at a relative path, the destination
\* entry has the source's type.
C7_ReplaceAlways ==
    Done => \A p \in Paths : Disagree(p) => dest[p].type = src[p].type

\* C7 amended: wherever the destination and the source disagreed on the type
\* of the entry at a relative path and Run has copied the source entry of
\* that path (copied the regular file or symlink, materialized the
\* directory), the destination entry has the source's type.
C7_ReplaceWhenCopied ==
    \A p \in Paths :
        (Disagree(p) /\ (CopiedFile(p) \/ LinkInPlace(p) \/ Materialized(p)))
            => dest[p].type = src[p].type

\* C7 witness: Run is over and a destination directory with an entry in it
\* has become the regular file the source has at that path.
C7_Witness ==
    /\ Done
    /\ \E p \in Paths, q \in Paths :
         /\ dest0[p].type = "dir" /\ Below(p, q) /\ dest0[q].type # "none"
         /\ src[p].type = "file" /\ CopiedFile(p) /\ dest[p].type = "file"

\* C8: a symlink Run has copied, and not removed to copy it again, is a
\* symlink in the destination with the target string of the source link,
\* whatever that string names, and nothing of what held the path before is
\* left below it.
C8_SymlinkCopiedAsIs ==
    \A p \in Paths :
        LinkInPlace(p) =>
            /\ dest[p].type = "symlink"
            /\ dest[p].data = src[p].data
            /\ \A q \in Paths : Below(p, q) => dest[q].type = "none"

\* C8 witness: Run copied a symlink to a path where a directory with an
\* entry in it was.
C8_Witness ==
    \E p \in Paths, q \in Paths :
        /\ CopiedLink(p) /\ dest[p].type = "symlink"
        /\ dest0[p].type = "dir" /\ Below(p, q) /\ dest0[q].type # "none"

Resolved(override, own) == IF override # Nil THEN override ELSE own

\* C9: every regular file Run has copied and every directory Run has
\* materialized has the UID override as uid if it is set and the uid of its
\* source entry if not, and the GID override as gid if it is set and the gid
\* of its source entry if not.
C9_OwnershipResolved ==
    \A p \in Paths :
        (CopiedFile(p) \/ Materialized(p)) =>
            /\ dest[p].uid = Resolved(opts.UID, src[p].uid)
            /\ dest[p].gid = Resolved(opts.GID, src[p].gid)

\* C9 witness: with the UID override set and the GID override not, Run has
\* copied a file and materialized a directory below the destination root.
C9_Witness ==
    /\ opts.UID # Nil /\ opts.GID = Nil
    /\ \E p \in Paths, q \in Paths :
         /\ CopiedFile(p) /\ dest[p].gid = src[p].gid /\ dest[p].uid = opts.UID
         /\ q # Root /\ Materialized(q) /\ dest[q].gid = src[q].gid

\* C10: after a successful Run, every entry Run created (directory, regular
\* file, symlink) has the UID override as uid if it is set and the GID
\* override as gid if it is set.
C10_OverrideOnEveryEntry ==
    Succeeded =>
        \A p \in Paths :
            (CopiedFile(p) \/ CopiedLink(p) \/ Materialized(p)) =>
                /\ opts.UID # Nil => dest[p].uid = opts.UID
                /\ opts.GID # Nil => dest[p].gid = opts.GID

\* The operations that write an entry at their path.
Writes == {"mkdir", "create", "copySymlink", "chmod", "chown", "dirInChain"}

\* The step warns about an unsupported entry, at path WarnedPath.
WarnedNow == \E i \in (Len(log) + 1)..Len(log') : log'[i].op = "warn"
WarnedPath == log'[CHOOSE i \in (Len(log) + 1)..Len(log') : log'[i].op = "warn"].path

\* C11: a source entry that is no directory, regular file or symlink is
\* skipped with a warning: the step that warns about it changes nothing in the
\* destination, returns no error and hands over to the next entry of the walk;
\* and at no time has Run written an entry at the path of such a source entry.
C11_UnsupportedSkipped ==
    [][/\ WarnedNow =>
            /\ src[WarnedPath].type = "other"
            /\ log'[Len(log')].op = "warn"
            /\ dest' = dest /\ c' = c
            /\ err' = "none" /\ pc' # "done"
            /\ \/ pc = "walk" /\ walk' = Tail(walk)
               \/ pc = "copy" /\ copyq' = Tail(copyq)
       /\ \A i \in 1..Len(log') :
            src[log'[i].path].type = "other" => log'[i].op \notin Writes
       /\ \A q \in Paths :
            (src[q].type = "other" /\ dest'[q].type # "none") => dest'[q] = dest0[q]
      ]_vars

\* C11 witness: Run succeeded after it warned about an unsupported entry and
\* then copied a regular file.
C11_Witness ==
    /\ Succeeded
    /\ \E i \in 1..Len(log), j \in 1..Len(log) :
         /\ i < j
         /\ log[i].op = "warn" /\ src[log[i].path].type = "other"
         /\ log[j].op = "copyFile" /\ IsCopy(log[j].path)

\* C12: when the parent directory of the destination root does not exist
\* and AbortIfDestParentDirNotExists is true, Run returns an error as its
\* first step: no source entry has been visited, no policy asked, and nothing
\* is created (the parent is still missing, the destination is untouched);
\* when the option is false the parent is created and, unless the creation
\* itself fails, the walk starts with the whole source tree ahead of it.
C12_AbortIfDestParentMissing ==
    [][(pc = "run" /\ pc' # "run" /\ destParent = "missing") =>
          IF opts.AbortIfDestParentDirNotExists
          THEN /\ pc' = "done" /\ err' = "abort"
               /\ log = << >> /\ log' = << >>
               /\ dest' = dest0 /\ destParent' = "missing"
               /\ c'.visitedDestDirs = << >>
          ELSE \/ /\ pc' = "walk" /\ err' = "none"
                  /\ destParent' = "dir"
                  /\ walk' = PreOrder(src, Root) /\ walk' # << >>
                  /\ dest' = dest0
               \/ /\ pc' = "done" /\ err' = "fs" /\ destParent' = "missing"
      ]_vars

\* C12 witness: Run is over with the abort error, the parent of the
\* destination root is still missing and the source holds a regular file
\* that no policy was asked about.
C12_Witness ==
    /\ pc = "done" /\ err = "abort" /\ destParent = "missing"
    /\ opts.AbortIfDestParentDirNotExists
    /\ log = << >>
    /\ \E p \in Paths \ {Root} : src[p].type = "file" /\ dest[p].type = "none"

ErrTexts == {ErrText(e) : e \in PolicyErrorValues}

\* C13: when a policy has returned an error for a path, whatever the error,
\* Run is over with the policy's error, and the policy call is the last thing
\* Run did: nothing was processed after that path.
C13_PolicyErrorAborts ==
    \A i \in 1..Len(log) :
        (log[i].op \in PolicyOps /\ log[i].val \in ErrTexts) =>
            /\ pc = "done" /\ err = "policy"
            /\ i = Len(log)

\* C14: Run halts on the first error: a failed filesystem call is the last
\* thing Run did (no destination mutation, no policy call after it) and Run
\* is over with an error; and when Run is over with an error, every regular
\* file and symlink that Run had copied completely is in the destination as
\* it was copied.
C14_HaltsOnFirstError ==
    /\ \A i \in 1..Len(log) :
         log[i].op = "error" => (i = Len(log) /\ pc = "done" /\ err = "fs")
    /\ err # "none" => pc = "done"
    /\ (pc = "done" /\ err # "none") =>
         \A p \in Paths :
            /\ CopiedFile(p) =>
                 (IsCopy(p) /\ dest[p].mode = src[p].mode)
            /\ CopiedLink(p) => IsCopy(p)

\* The ownership Run resolves for the destination entry of path p.
ResolvedOwner(p) ==
    [uid |-> Resolved(opts.UID, src[p].uid), gid |-> Resolved(opts.GID, src[p].gid)]

\* C15: once createEmptyDirsChain has returned successfully for a path, every
\* directory from the destination root down to that path is in
\* visitedDestDirs; and at all times every path in visitedDestDirs is a
\* directory of the destination with the permission bits of its source
\* directory and the resolved uid and gid.
C15_ChainMaterialized ==
    /\ \A i \in 1..Len(log) :
         log[i].op = "dirsChain" =>
            \A q \in Paths : IsPrefix(q, log[i].path) => Materialized(q)
    /\ \A p \in Paths :
         Materialized(p) =>
            /\ dest[p].type = "dir"
            /\ dest[p].mode = src[p].mode
            /\ dest[p].uid = ResolvedOwner(p).uid
            /\ dest[p].gid = ResolvedOwner(p).gid

\* What createEmptyDirInChain does to the destination.
ChainOps == {"dirInChain", "mkdir", "chmod", "chown", "removeAll"}

\* createEmptyDirsChain returned successfully for the same path at i and,
\* later, at j.
SameRequest(i, j) ==
    /\ i < j
    /\ log[i].op = "dirsChain" /\ log[j].op = "dirsChain"
    /\ log[i].path = log[j].path

\* C16: when createEmptyDirsChain is called a second time for the same
\* destination path in one run, the path is in visitedDestDirs and the call
\* does nothing: no directory is looked at, created, removed, chmoded or
\* chowned by it.
C16_SecondRequestDoesNothing ==
    \A i \in 1..Len(log), j \in 1..Len(log) :
        SameRequest(i, j) =>
            /\ log[j - 1].op \notin ChainOps
            /\ Materialized(log[j].path)

\* C16 witness: Run succeeded and createEmptyDirsChain was called twice for
\* the same directory below the destination root, which it had to create.
C16_Witness ==
    /\ Succeeded
    /\ \E i \in 1..Len(log), j \in 1..Len(log) :
         /\ SameRequest(i, j)
         /\ log[i].path # Root
         /\ dest0[log[i].path].type = "none"
         /\ log[i - 1].op = "chown"

RootIsEntry == src[Root].type \in {"file", "symlink"}
DirOps == {"matchDir", "dirInChain", "dirsChain", "mkdir"}
Count(op) == Cardinality({i \in 1..Len(log) : log[i].op = op})

\* C18: when the source root is a regular file or a symlink, matchFile is
\* asked once, about the root, and matchDir never; no directory is made at
\* or below the destination root and visitedDestDirs stays empty; and when
\* matchFile said true and Run returned nil, the destination root is the copy
\* of the source root, with nothing below it.
C18_RootEntryCopiedInPlace ==
    RootIsEntry =>
        /\ \A i \in 1..Len(log) :
              /\ log[i].op \notin DirOps
              /\ log[i].path = Root
        /\ Count("matchFile") <= 1
        /\ c.visitedDestDirs = << >>
        /\ \A p \in Paths : dest[p].type = "dir" => dest[p] = dest0[p]
        /\ Succeeded =>
              /\ Count("matchFile") = 1
              /\ Returned("matchFile", Root, "true") =>
                    /\ IsCopy(Root)
                    /\ \A p \in Paths \ {Root} : dest[p].type = "none"

\* The source root is a regular file, the destination root was a directory
\* with an entry, and the file has taken its place.
C18_Witness ==
    /\ Succeeded /\ src[Root].type = "file"
    /\ dest0[Root].type = "dir"
    /\ \E p \in Paths \ {Root} : dest0[p].type # "none"
    /\ Returned("matchFile", Root, "true")
    /\ dest[Root].type = "file"

\* C20: once matchDir has answered DirMatch for a directory, neither matchDir
\* nor matchFile is asked about any path below that directory.
C20_NoPolicyBelowIncluded ==
    \A i \in 1..Len(log) :
        (log[i].op = "matchDir" /\ log[i].val = DirMatch) =>
            \A j \in (i + 1)..Len(log) :
                log[j].op \in PolicyOps =>
                    ~(IsPrefix(log[i].path, log[j].path) /\ log[j].path # log[i].path)

EntryOps == {"matchDir", "matchFile", "copyFile", "copySymlink", "dirInChain"}

\* C19: when the context is canceled as the walk of Run comes to its next
\* entry, this step asks no policy and copies nothing, and Run has returned
\* after it.
C19_CancelStopsRun ==
    [][(ctx = "canceled" /\ pc = "walk") =>
         /\ \A i \in (Len(log) + 1)..Len(log') : log'[i].op \notin EntryOps
         /\ dest' = dest
         /\ pc' = "done"]_vars

\* The calls of createEmptyDirInChain for p so far.
Examined(p) == {i \in 1..Len(log) : log[i].op = "dirInChain" /\ log[i].path = p}

\* C21: within one run createEmptyDirInChain processes each destination
\* directory at most once, also when the directory is asked for again as an
\* ancestor of a deeper path.
C21_VisitedNotReexamined ==
    \A p \in Paths : Cardinality(Examined(p)) <= 1

\* C22: within one materialization the directories are processed in strictly
\* increasing depth, and no directory is to be created before its parent is
\* there.
C22_ShallowToDeep ==
    chain.pc \in {"dirs", "done"} =>
        /\ \A i, j \in 1..chain.visited :
              i < j => Len(chain.dirsToVisit[i]) < Len(chain.dirsToVisit[j])
        /\ ~chain.err

\* matchDir has answered DirFallThrough for source directory p, and DirMatch
\* for no directory above it.
FellThrough(p) ==
    /\ src[p].type = "dir" /\ p # Root
    /\ Returned("matchDir", p, DirFallThrough)
    /\ \A q \in Paths : Below(q, p) => ~Returned("matchDir", q, DirMatch)

\* Run has copied something below p: a regular file, a symlink, or a
\* directory with DirMatch.
CopiedBelow(p) ==
    \E q \in Paths :
        /\ Below(p, q)
        /\ \/ CopiedFile(q) \/ CopiedLink(q)
           \/ Returned("matchDir", q, DirMatch) /\ Materialized(q)

\* A policy has said that something below p is to be copied.
ToCopyBelow(p) ==
    \E q \in Paths :
        /\ Below(p, q)
        /\ Returned("matchFile", q, "true") \/ Returned("matchDir", q, DirMatch)

\* C23: a directory with DirFallThrough that createEmptyDirInChain has not
\* been called for is in the destination as it was before Run (absent, if it
\* was absent); createEmptyDirInChain is called for it only when something
\* below it is to be copied; and after a successful Run it is materialized
\* if and only if something below it was copied.
C23_FallThroughOnlyAsAncestor ==
    \A p \in Paths :
        FellThrough(p) =>
            /\ Examined(p) = {} =>
                  /\ dest[p] = dest0[p]
                  /\ \A i \in 1..Len(log) :
                        log[i].path = p => log[i].op \in PolicyOps
            /\ Examined(p) # {} => ToCopyBelow(p)
            /\ Succeeded => (Materialized(p) <=> CopiedBelow(p))

\* C23 witness: after a successful Run one directory with DirFallThrough is
\* in the destination, as the parent of a copied file, and another, with
\* nothing copied below it, is not.
C23_Witness ==
    /\ Succeeded
    /\ \E p \in Paths, q \in Paths :
         /\ p # q /\ FellThrough(p) /\ FellThrough(q)
         /\ Materialized(p) /\ CopiedBelow(p) /\ dest[p].type = "dir"
         /\ ~Materialized(q) /\ dest[q].type = "none"

\* C24: a second Run of the same object starts with an empty
\* visitedDestDirs, and whenever it is asked for the chain of a directory it
\* calls createEmptyDirInChain for that directory itself.
C24_FreshVisitedSetPerRun ==
    \A i \in 1..Len(log) :
        log[i].op = "run" =>
            /\ (i = Len(log) /\ pc = "run") => c.visitedDestDirs = << >>
            /\ \A j \in (i + 1)..Len(log) :
                  log[j].op = "dirsChain" =>
                      \E k \in (i + 1)..(j - 1) :
                          log[k].op = "dirInChain" /\ log[k].path = log[j].path

\* What a copy does to its destination path.
CopyOps == {"removeAll", "create", "copyFile", "copySymlink"}

\* C25: within one run the destination path of a source regular file or
\* symlink is removed at most once, created at most once and written at most
\* once.
C25_EntryCopiedOnce ==
    \A p \in Paths :
        src[p].type \in {"file", "symlink"} =>
            \A op \in CopyOps :
                Cardinality({i \in 1..Len(log) : log[i].op = op /\ log[i].path = p}) <= 1

\* C26: Run returns, with nil or with an error, also when the destination
\* root is a directory of the source tree.
C26_RunTerminates == <>(nest.pc = "done")

\* C26 witness: the destination root is inside the source root and Run has
\* returned an error after it made directories down to the longest path.
C26_Witness ==
    /\ nest.pc = "done" /\ nest.err
    /\ IsPrefix(SrcRoot, nest.dest)
    /\ \E q \in nest.dirs : Len(q) = MaxPath

NonDirParents == {"file", "linkfile", "linkdangling"}

\* C27: when a regular file, a dangling symlink or a symlink to a
\* non-directory is at the path of the destination root's parent, Run's
\* first step returns an error and leaves the entry, the destination and the
\* log as they are if AbortIfDestParentDirNotExists is true; if it is false
\* the entry is removed, and a directory is in its place when the walk starts.
C27_AbortKeepsNonDirParent ==
    [][(pc = "run" /\ pc' # "run" /\ destParent \in NonDirParents) =>
          IF opts.AbortIfDestParentDirNotExists
          THEN /\ pc' = "done" /\ err' = "abort"
               /\ destParent' = destParent
               /\ dest' = dest0 /\ log' = << >>
          ELSE /\ destParent' # destParent
               /\ \/ pc' = "walk" /\ err' = "none" /\ destParent' = "dir"
                  \/ pc' = "done" /\ err' = "fs" /\ destParent' = "missing"
      ]_vars

\* C27 witness: Run is over with the abort error, a symlink that points to
\* nothing is still at the parent's path, and the regular file of the source
\* was not copied.
C27_Witness ==
    /\ pc = "done" /\ err = "abort" /\ destParent = "linkdangling"
    /\ opts.AbortIfDestParentDirNotExists
    /\ log = << >>
    /\ \E p \in Paths \ {Root} : src[p].type = "file" /\ dest[p].type = "none"

ParDone == par.active # {} /\ \A j \in par.active : par.pc[j] = "done"
ParResult(j) == [err |-> par.err[j], tree |-> par.tree[j]]

\* What job j returns and leaves when it runs alone.
ParAlone(j) ==
    IF par.parent0[par.of[j]] # "dir" /\ par.abort[j]
    THEN [err |-> "abort", tree |-> 0]
    ELSE [err |-> "none", tree |-> 2]

\* A job that is to abort when the parent is missing may find the parent the
\* other job has just created, and then copies.
ParCopied(j) == ParResult(j) = [err |-> "none", tree |-> 2]

\* C17: two jobs with different destination roots run in parallel: however
\* their system calls interleave, when both runs are over each has returned
\* what it returns when it runs alone, and its destination tree is the one it
\* leaves when it runs alone (a job with AbortIfDestParentDirNotExists may
\* have copied instead of aborting).
C17_ParallelRunsAsAlone ==
    ParDone =>
        \A j \in par.active :
            \/ ParResult(j) = ParAlone(j)
            \/ par.abort[j] /\ ParCopied(j)

\* The policies answered the two runs as functions of the path do.
SameAnswers ==
    \A x \in ord.first.answers : \A y \in PolicyAnswers(log) :
        x[1] = y[1] /\ x[2] = y[2] => x[3] = y[3]

====
